---- MODULE Spec2Model ----
(***************************************************************************)
(* Model of the road-accident analysis helpers:                            *)
(*   src/regression.py          model-comparison and diagnostic helpers    *)
(*   src/data_visualisation.py  chart builders (group, aggregate, render)  *)
(*                                                                         *)
(* Every helper is a single synchronous call.  The state is what a caller  *)
(* (a notebook) can observe between calls: its DataFrame, the value the    *)
(* last call returned, what it printed, and the aggregated table the last  *)
(* chart was drawn from.                                                   *)
(*                                                                         *)
(* Floats are modelled as exact rationals [num, den] (den = 0 for the IEEE *)
(* non-finite results of a division by zero); rounding error is not        *)
(* modelled.  NaN inputs are outside the modelled inputs.                  *)
(***************************************************************************)
EXTENDS Integers, Sequences, FiniteSets, TLC

VARIABLES
    models,     \* the caller's two fitted model results: <<model1, model2>>
    df,         \* the caller's DataFrame object: [columns, rows]
    df_before,  \* history: the contents of df when the caller built it
    call,       \* the last call made: [fn, args]
    ret,        \* the value the last call returned: [type, value]
    stdout,     \* the lines the last call printed
    chart,      \* the aggregated table the last call handed to the plotting library
    prevChart,  \* history: the table of the call before, when it was the same call
    repeat      \* history: the last call repeated the call before it, inputs identical

vars == <<models, df, df_before, call, ret, stdout, chart, prevChart, repeat>>

(***************************************************************************)
(* Bounds of the model.                                                    *)
(***************************************************************************)
MaxAic == 3
MaxLlf == 3
MaxDfModel == 4
MaxNullDev == 4
MaxNobs == 3
MaxRows == 2
MaxVal == 2
MaxSevRows == 2
MaxSev == 1

(***************************************************************************)
(* Helpers: sequences and exact rational arithmetic for Python floats.     *)
(***************************************************************************)
Range(s) == {s[i] : i \in DOMAIN s}

Abs(x) == IF x < 0 THEN 0 - x ELSE x

Sign(x) == IF x < 0 THEN 0 - 1 ELSE IF x = 0 THEN 0 ELSE 1

RECURSIVE Gcd(_, _)
Gcd(a, b) == IF b = 0 THEN a ELSE Gcd(b, a % b)

\* n / d as a float: normalised, den > 0; n / 0 is nan (0/0) or +-inf.
Frac(n, d) ==
    IF d = 0 THEN [num |-> Sign(n), den |-> 0]
    ELSE LET g == Gcd(Abs(n), Abs(d))
         IN  [num |-> (Sign(d) * n) \div g, den |-> Abs(d) \div g]

Float(n) == [num |-> n, den |-> 1]

IsFinite(x) == x.den # 0

\* Non-finite operands propagate (only nan, from 0/0, arises in the model).
FDiv(a, b) ==
    IF ~IsFinite(a) THEN a ELSE IF ~IsFinite(b) THEN b
    ELSE Frac(a.num * b.den, a.den * b.num)

FSub(a, b) ==
    IF ~IsFinite(a) THEN a ELSE IF ~IsFinite(b) THEN b
    ELSE Frac(a.num * b.den - b.num * a.den, a.den * b.den)

FAdd(a, b) ==
    IF ~IsFinite(a) THEN a ELSE IF ~IsFinite(b) THEN b
    ELSE Frac(a.num * b.den + b.num * a.den, a.den * b.den)

RECURSIVE FSum(_)
FSum(s) == IF s = <<>> THEN Float(0) ELSE FAdd(s[1], FSum(Tail(s)))

RECURSIVE SumSeq(_)
SumSeq(s) == IF s = <<>> THEN 0 ELSE s[1] + SumSeq(Tail(s))

\* Stable ordering of the indices I by rank rk (ties keep the original order).
RECURSIVE OrderIdx(_, _)
OrderIdx(I, rk) ==
    IF I = {} THEN <<>>
    ELSE LET m == CHOOSE i \in I :
                    \A j \in I : rk[i] < rk[j] \/ (rk[i] = rk[j] /\ i <= j)
         IN  <<m>> \o OrderIdx(I \ {m}, rk)

StableSort(rows, rk) ==
    LET ord == OrderIdx(DOMAIN rows, rk)
    IN  [k \in DOMAIN rows |-> rows[ord[k]]]

Position(s, v) == CHOOSE i \in DOMAIN s : s[i] = v

(***************************************************************************)
(* Python values.                                                          *)
(***************************************************************************)
None == [type |-> "NoneType", value |-> <<>>]

NoArg == [is_none |-> TRUE, value |-> <<>>]

Given(v) == [is_none |-> FALSE, value |-> v]

Table(columns, rows) == [columns |-> columns, rows |-> rows]

DataFrame(t) == [type |-> "DataFrame", value |-> t]

NoChart == Table(<<>>, <<>>)

NoCall == [fn |-> "none", args |-> <<>>]

(***************************************************************************)
(* Fitted model results: the attributes the helpers read.                  *)
(***************************************************************************)
AicVals == (0..MaxAic) \cup {95, 100}

LlfVals == {0 - x : x \in 1..MaxLlf} \cup (1..MaxLlf) \cup {0 - 500, 0 - 490, 0 - 80}

DfModelVals == 1..MaxDfModel

NullDevVals == (0..MaxNullDev) \cup {200}

NobsVals == (1..MaxNobs) \cup {50}

ModelNames == {"Model 1", "Model 2"}

(***************************************************************************)
(* regression.py: compare_models_aic                                       *)
(***************************************************************************)
\* The verdict line, with the print statement that produced it.
aic_verdict_swapped(aic1, aic2, name1, name2) ==
    IF aic1 <= aic2
    THEN [line |-> 46, text |-> <<name1, " has a lower AIC and is preferred.">>]
    ELSE IF aic2 < aic1
    THEN [line |-> 48, text |-> <<name2, " has a lower AIC and is preferred.">>]
    ELSE [line |-> 50, text |-> <<"Both models have the same AIC.">>]

aic_verdict(aic1, aic2, name1, name2) ==
    IF aic1 < aic2
    THEN [line |-> 46, text |-> <<name1, " has a lower AIC and is preferred.">>]
    ELSE IF aic2 < aic1
    THEN [line |-> 48, text |-> <<name2, " has a lower AIC and is preferred.">>]
    ELSE [line |-> 50, text |-> <<"Both models have the same AIC.">>]

\* f"{x:.2f}" is kept as the format applied to the number.
Fmt(spec, x) == [fmt |-> spec, of |-> x]

compare_models_aic(model1, model2, name1, name2) ==
    LET aic1 == model1.aic
        aic2 == model2.aic
    IN  [stdout |-> << [line |-> 42, text |-> <<"AIC - ", name1, Fmt(".2f", aic1)>>],
                       [line |-> 43, text |-> <<"AIC - ", name2, Fmt(".2f", aic2)>>],
                       aic_verdict(aic1, aic2, name1, name2) >>,
         \* the body ends without a return statement
         ret |-> None]

(***************************************************************************)
(* regression.py: likelihood_ratio_test                                    *)
(***************************************************************************)
\* scipy.stats.chi2.sf(x, df) < 0.05 for whole x: x above the 95% quantile
\* (in thousandths); sf is nan for df <= 0 and the comparison is False.
Chi2Quantile95 == <<3841, 5991, 7815, 9488, 11070, 12592, 14067, 15507>>

p_below_005(lr_stat, df_diff) ==
    /\ df_diff \in DOMAIN Chi2Quantile95
    /\ lr_stat * 1000 > Chi2Quantile95[df_diff]

likelihood_ratio_test(model1, model2, name1, name2) ==
    LET lr_stat == 2 * (model2.llf - model1.llf)
        df_diff == (model2.df_model + 1) - model1.df_model
        p_value == [sf |-> "chi2", x |-> lr_stat, df |-> df_diff]
    IN  [stdout |-> << [line |-> 93, text |-> <<"Likelihood Ratio Test: ", name1, name2>>],
                       [line |-> 94, text |-> <<"LR Statistic: ", Fmt(".2f", lr_stat)>>],
                       [line |-> 95, text |-> <<"Degrees of Freedom: ", df_diff>>],
                       [line |-> 96, text |-> <<"p-value: ", Fmt(".5f", p_value)>>],
                       IF p_below_005(lr_stat, df_diff)
                       THEN [line |-> 99, text |-> <<name2, " significantly improves model fit over ", name1>>]
                       ELSE [line |-> 101, text |-> <<"No significant improvement; ", name1, " is sufficient.">>] >>,
         \* the body ends without a return statement
         ret |-> None]

(***************************************************************************)
(* regression.py: compute_pseudo_r2                                        *)
(***************************************************************************)
llh_null_unsigned(model) == FDiv(Float(model.null_deviance), Float(2))

llh_null_of(model) == FDiv(Float(model.null_deviance), Float(0 - 2))

compute_pseudo_r2(model, model_name) ==
    LET llh == Float(model.llf)
        llh_null == llh_null_of(model)
        r2_ml == FSub(Float(1), FDiv(llh_null, llh))
        r2_cu == FDiv(r2_ml, FSub(Float(1), FDiv(llh_null, Float(model.nobs))))
    IN  [stdout |-> <<>>,
         ret |-> DataFrame(Table(<<"Model", "Metric", "Value">>,
                    << [Model |-> model_name, Metric |-> "r2ML", Value |-> r2_ml],
                       [Model |-> model_name, Metric |-> "r2CU", Value |-> r2_cu] >>))]

(***************************************************************************)
(* pandas: labels, group-by, the tables the helpers build.                 *)
(***************************************************************************)
\* Python's str ordering (by code point) on the labels of the model.
SortedLabels ==
    << "Accidents with fatal injuries (30 days)", "Accidents with minor injury",
       "Accidents with serious injuries", "Dimanche", "Fatal accidents", "Jeudi",
       "Jour", "Lundi", "MS_ACCT", "MS_ACCT_WITH_DEAD", "MS_ACCT_WITH_MORY_INJ",
       "MS_ACCT_WITH_SERLY_INJ", "MS_ACCT_WITH_SLY_INJ", "Mardi", "Mercredi",
       "Monday", "Nuit", "Samedi", "Vendredi", "Weekday", "Weekend" >>

StrRank(label) == Position(SortedLabels, label)

RECURSIVE SortLabels(_)
SortLabels(S) ==
    IF S = {} THEN <<>>
    ELSE LET m == CHOOSE x \in S : \A y \in S : StrRank(x) <= StrRank(y)
         IN  <<m>> \o SortLabels(S \ {m})

\* A missing label (pandas NaN in a categorical column).
NaN == "nan"

RECURSIVE ColSum(_, _)
ColSum(rows, col) == IF rows = <<>> THEN 0 ELSE rows[1][col] + ColSum(Tail(rows), col)

Where(rows, col, v) == SelectSeq(rows, LAMBDA r : r[col] = v)

\* df.groupby(by, as_index=False)[cols].sum(): one row per key, keys sorted.
groupby_sum(rows, by, cols) ==
    LET keys == SortLabels({rows[i][by] : i \in DOMAIN rows})
    IN  [k \in DOMAIN keys |->
            (by :> keys[k]) @@ [c \in Range(cols) |-> ColSum(Where(rows, by, keys[k]), c)]]

\* df.loc[:, col] = values: the column is overwritten, or appended when new.
WithColumn(t, col, values) ==
    Table(IF col \in Range(t.columns) THEN t.columns ELSE Append(t.columns, col),
          [i \in DOMAIN t.rows |-> (col :> values[i]) @@ t.rows[i]])

(***************************************************************************)
(* data_visualisation.py: plot_accidents_by_day                            *)
(***************************************************************************)
DefaultDayOrder == <<"Lundi", "Mardi", "Mercredi", "Jeudi", "Vendredi", "Samedi", "Dimanche">>

\* pd.Categorical(values, categories=..., ordered=True): a value outside the
\* categories becomes NaN; sort_values orders by category and puts NaN last.
Categorical(v, categories) == IF v \in Range(categories) THEN v ELSE NaN

CategoryCode(v, categories) ==
    IF v \in Range(categories) THEN Position(categories, v) ELSE Len(categories) + 1

\* Faulty variant: the sort_values of line 52 is dropped.
plot_accidents_by_day_unsorted(d, day_col, value_col, day_order_arg) ==
    LET day_order == IF day_order_arg.is_none THEN DefaultDayOrder ELSE day_order_arg.value
        day_counts == groupby_sum(d.rows, day_col, <<value_col>>)
        categorical == [i \in DOMAIN day_counts |->
                          [day_counts[i] EXCEPT ![day_col] = Categorical(@, day_order)]]
    IN  [df |-> d, data |-> Table(<<day_col, value_col>>, categorical)]

\* Faulty variant: the per-day sums are written into the caller's frame
\* (df[value_col] = df.groupby(day_col)[value_col].transform("sum")).
plot_accidents_by_day_inplace(d, day_col, value_col, day_order_arg) ==
    LET day_order == IF day_order_arg.is_none THEN DefaultDayOrder ELSE day_order_arg.value
        day_counts == groupby_sum(d.rows, day_col, <<value_col>>)
        categorical == [i \in DOMAIN day_counts |->
                          [day_counts[i] EXCEPT ![day_col] = Categorical(@, day_order)]]
        sorted == StableSort(categorical,
                    [i \in DOMAIN categorical |-> CategoryCode(categorical[i][day_col], day_order)])
    IN  [df |-> WithColumn(d, value_col,
                    [i \in DOMAIN d.rows |->
                        ColSum(Where(d.rows, day_col, d.rows[i][day_col]), value_col)]),
         data |-> Table(<<day_col, value_col>>, sorted)]

plot_accidents_by_day(d, day_col, value_col, day_order_arg) ==
    LET day_order == IF day_order_arg.is_none THEN DefaultDayOrder ELSE day_order_arg.value
        day_counts == groupby_sum(d.rows, day_col, <<value_col>>)
        categorical == [i \in DOMAIN day_counts |->
                          [day_counts[i] EXCEPT ![day_col] = Categorical(@, day_order)]]
        sorted == StableSort(categorical,
                    [i \in DOMAIN categorical |-> CategoryCode(categorical[i][day_col], day_order)])
    IN  \* df is only read; day_counts is a new frame
        [df |-> d, data |-> Table(<<day_col, value_col>>, sorted)]

(***************************************************************************)
(* data_visualisation.py: plot_avg_accidents_weekday_vs_weekend            *)
(***************************************************************************)
DefaultWeekendDays == <<"Samedi", "Dimanche">>

WeekLabel(x, weekend_days) == IF x \in Range(weekend_days) THEN "Weekend" ELSE "Weekday"

\* groupby([day_col, binary_col], as_index=False)[value_col].sum()
RECURSIVE SortPairs(_)
SortPairs(S) ==
    IF S = {} THEN <<>>
    ELSE LET m == CHOOSE x \in S : \A y \in S :
                    \/ StrRank(x[1]) < StrRank(y[1])
                    \/ (x[1] = y[1] /\ StrRank(x[2]) <= StrRank(y[2]))
         IN  <<m>> \o SortPairs(S \ {m})

groupby2_sum(rows, by1, by2, value_col) ==
    LET keys == SortPairs({<<rows[i][by1], rows[i][by2]>> : i \in DOMAIN rows})
    IN  [k \in DOMAIN keys |->
            (by1 :> keys[k][1]) @@ (by2 :> keys[k][2]) @@
            (value_col :> ColSum(Where(Where(rows, by1, keys[k][1]), by2, keys[k][2]), value_col))]

\* groupby(by, as_index=False)[value_col].mean(), renamed to out_col
groupby_mean(rows, by, value_col, out_col) ==
    LET keys == SortLabels({rows[i][by] : i \in DOMAIN rows})
    IN  [k \in DOMAIN keys |->
            LET grp == Where(rows, by, keys[k])
            IN  (by :> keys[k]) @@ (out_col :> Frac(ColSum(grp, value_col), Len(grp)))]

\* Faulty variant: a flat mean over the rows of each label (no per-day sum first).
plot_avg_accidents_flat_mean(d, day_col, value_col, binary_col, weekend_days_arg) ==
    LET weekend_days == IF weekend_days_arg.is_none THEN DefaultWeekendDays
                        ELSE weekend_days_arg.value
        copy == WithColumn(d, binary_col,
                    [i \in DOMAIN d.rows |-> WeekLabel(d.rows[i][day_col], weekend_days)])
    IN  [df |-> d,
         data |-> Table(<<binary_col, "Average_Accidents">>,
                        groupby_mean(copy.rows, binary_col, value_col, "Average_Accidents"))]

\* Faulty variant: the df.copy() of line 119 is dropped, the column lands in the caller's frame.
plot_avg_accidents_no_copy(d, day_col, value_col, binary_col, weekend_days_arg) ==
    LET weekend_days == IF weekend_days_arg.is_none THEN DefaultWeekendDays
                        ELSE weekend_days_arg.value
        copy == WithColumn(d, binary_col,
                    [i \in DOMAIN d.rows |-> WeekLabel(d.rows[i][day_col], weekend_days)])
        day_grouped == groupby2_sum(copy.rows, day_col, binary_col, value_col)
    IN  [df |-> copy,
         data |-> Table(<<binary_col, "Average_Accidents">>,
                        groupby_mean(day_grouped, binary_col, value_col, "Average_Accidents"))]

plot_avg_accidents_weekday_vs_weekend(d, day_col, value_col, binary_col, weekend_days_arg) ==
    LET weekend_days == IF weekend_days_arg.is_none THEN DefaultWeekendDays
                        ELSE weekend_days_arg.value
        \* df = df.copy(): from here on df names a private copy
        copy == WithColumn(d, binary_col,
                    [i \in DOMAIN d.rows |-> WeekLabel(d.rows[i][day_col], weekend_days)])
        day_grouped == groupby2_sum(copy.rows, day_col, binary_col, value_col)
    IN  [df |-> d,
         data |-> Table(<<binary_col, "Average_Accidents">>,
                        groupby_mean(day_grouped, binary_col, value_col, "Average_Accidents"))]

(***************************************************************************)
(* data_visualisation.py: plot_accidents_by_road_type, _by_hour,           *)
(* _by_light_condition                                                     *)
(***************************************************************************)
\* counts[value_col] / counts[value_col].sum()
WithProportion(counts, value_col) ==
    LET grand == ColSum(counts, value_col)
    IN  [i \in DOMAIN counts |->
            ("Proportion" :> Frac(counts[i][value_col], grand)) @@ counts[i]]

plot_accidents_by_road_type(d, road_col, value_col) ==
    LET road_counts == groupby_sum(d.rows, road_col, <<value_col>>)
        \* sort_values(by=value_col, ascending=False); equal totals keep their order
        sorted == StableSort(road_counts,
                    [i \in DOMAIN road_counts |-> 0 - road_counts[i][value_col]])
    IN  [df |-> d,
         data |-> Table(<<road_col, value_col, "Proportion">>, WithProportion(sorted, value_col))]

plot_accidents_by_hour(d, hour_col, value_col) ==
    [df |-> d,
     data |-> Table(<<hour_col, value_col>>, groupby_sum(d.rows, hour_col, <<value_col>>))]

plot_accidents_by_light_condition(d, light_col, value_col) ==
    LET light_counts == groupby_sum(d.rows, light_col, <<value_col>>)
    IN  [df |-> d,
         data |-> Table(<<light_col, value_col, "Proportion">>,
                        WithProportion(light_counts, value_col))]

(***************************************************************************)
(* data_visualisation.py: plot_accident_severity_by_light_condition        *)
(***************************************************************************)
DefaultSeverityCols ==
    << "MS_ACCT_WITH_DEAD", "MS_ACCT_WITH_MORY_INJ",
       "MS_ACCT_WITH_SERLY_INJ", "MS_ACCT_WITH_SLY_INJ" >>

DefaultAccidentTypeMapping ==
    [MS_ACCT_WITH_DEAD |-> "Fatal accidents",
     MS_ACCT_WITH_MORY_INJ |-> "Accidents with fatal injuries (30 days)",
     MS_ACCT_WITH_SERLY_INJ |-> "Accidents with serious injuries",
     MS_ACCT_WITH_SLY_INJ |-> "Accidents with minor injury"]

\* Series.replace(mapping): a name the mapping lacks is kept.
Replace(name, mapping) == IF name \in DOMAIN mapping THEN mapping[name] ELSE name

\* DataFrame.melt: the value columns stacked, one block of rows per column.
RECURSIVE melt(_, _, _)
melt(wide, id_col, value_vars) ==
    IF value_vars = <<>> THEN <<>>
    ELSE [i \in DOMAIN wide |->
            [id |-> wide[i][id_col], Accident_Type |-> value_vars[1],
             Count |-> wide[i][value_vars[1]]]]
         \o melt(wide, id_col, Tail(value_vars))

\* Faulty variant: every count is divided by the grand total over all lighting conditions.
severity_proportion_of_grand_total(long, i) ==
    Frac(long[i].Count, ColSum(long, "Count"))

\* Count / Total_Accidents, the total being groupby(light_col)["Count"].transform("sum")
severity_proportion(long, i) ==
    Frac(long[i].Count, ColSum(Where(long, "id", long[i].id), "Count"))

plot_accident_severity_by_light_condition(d, light_col, severity_cols_arg, mapping_arg) ==
    LET severity_cols == IF severity_cols_arg.is_none THEN DefaultSeverityCols
                         ELSE severity_cols_arg.value
        accident_type_mapping == IF mapping_arg.is_none THEN DefaultAccidentTypeMapping
                                 ELSE mapping_arg.value
        wide == groupby_sum(d.rows, light_col, severity_cols)
        long == melt(wide, light_col, severity_cols)
        severity_light == [i \in DOMAIN long |->
                             [id |-> long[i].id,
                              Accident_Type |-> Replace(long[i].Accident_Type, accident_type_mapping),
                              Proportion |-> severity_proportion(long, i)]]
        \* pivot(index=light_col, columns="Accident_Type", values="Proportion")
        index == SortLabels({severity_light[i].id : i \in DOMAIN severity_light})
        types == SortLabels({severity_light[i].Accident_Type : i \in DOMAIN severity_light})
        cell(l, t) == LET i == CHOOSE j \in DOMAIN severity_light :
                                  severity_light[j].id = l /\ severity_light[j].Accident_Type = t
                      IN  severity_light[i].Proportion
    IN  [df |-> d,
         data |-> Table(<<light_col>> \o types,
                        [k \in DOMAIN index |->
                            (light_col :> index[k]) @@ [t \in Range(types) |-> cell(index[k], t)]])]

(***************************************************************************)
(* regression.py: compute_vif                                              *)
(***************************************************************************)
\* statsmodels add_constant(X) with its defaults (prepend=True,
\* has_constant="skip"): a column "const" of ones is prepended unless X already
\* holds a constant non-zero column (ptp == 0 and some value != 0).
IsNonzeroConstantColumn(X, c) ==
    /\ \A i, j \in DOMAIN X.rows : X.rows[i][c] = X.rows[j][c]
    /\ \E i \in DOMAIN X.rows : X.rows[i][c] # 0

\* Faulty variant: the constant column is appended after the features.
add_constant_appended(X) ==
    IF \E c \in Range(X.columns) : IsNonzeroConstantColumn(X, c)
    THEN X
    ELSE Table(X.columns \o <<"const">>, [i \in DOMAIN X.rows |-> ("const" :> 1) @@ X.rows[i]])

add_constant(X) ==
    IF \E c \in Range(X.columns) : IsNonzeroConstantColumn(X, c)
    THEN X
    ELSE Table(<<"const">> \o X.columns, [i \in DOMAIN X.rows |-> ("const" :> 1) @@ X.rows[i]])

\* variance_inflation_factor(X.values, i) is the library's number; it is kept
\* as the call that produces it.
variance_inflation_factor(exog_idx) == [fn |-> "variance_inflation_factor", exog_idx |-> exog_idx]

compute_vif(d, features, add_const) ==
    LET selected == Table(features,
                          [i \in DOMAIN d.rows |-> [c \in Range(features) |-> d.rows[i][c]]])
        X == IF add_const THEN add_constant(selected) ELSE selected
    IN  [df |-> d,
         ret |-> DataFrame(Table(<<"Variable", "VIF">>,
                    [i \in DOMAIN X.columns |->
                        [Variable |-> X.columns[i], VIF |-> variance_inflation_factor(i - 1)]]))]

(***************************************************************************)
(* One call: the caller's frame after it, what it returned, printed, drew. *)
(***************************************************************************)
Invoke(c, frame, r, out, drawn) ==
    /\ call' = c
    /\ df' = frame
    /\ ret' = r
    /\ stdout' = out
    /\ chart' = drawn
    /\ repeat' = (call.fn = c.fn /\ call.args = c.args)
    /\ prevChart' = IF call.fn = c.fn /\ call.args = c.args THEN chart ELSE NoChart
    /\ UNCHANGED <<models, df_before>>

Call_compare_models_aic ==
    \E name1 \in ModelNames, name2 \in ModelNames :
        LET r == compare_models_aic(models[1], models[2], name1, name2)
        IN  Invoke([fn |-> "compare_models_aic", args |-> <<name1, name2>>],
                   df, r.ret, r.stdout, NoChart)

Call_likelihood_ratio_test ==
    \E name1 \in ModelNames, name2 \in ModelNames :
        LET r == likelihood_ratio_test(models[1], models[2], name1, name2)
        IN  Invoke([fn |-> "likelihood_ratio_test", args |-> <<name1, name2>>],
                   df, r.ret, r.stdout, NoChart)

Call_compute_pseudo_r2 ==
    \E model_name \in ModelNames :
        LET r == compute_pseudo_r2(models[1], model_name)
        IN  Invoke([fn |-> "compute_pseudo_r2", args |-> <<model_name>>],
                   df, r.ret, r.stdout, NoChart)

\* The fitted models a caller holds: each family varies the attributes one
\* helper reads and keeps the others at the values of the worked examples.
DefaultModel ==
    [aic |-> 100, llf |-> 0 - 500, df_model |-> 3, null_deviance |-> 200, nobs |-> 50]

ModelPairs ==
    {<<[DefaultModel EXCEPT !.aic = a1], [DefaultModel EXCEPT !.aic = a2]>> :
        a1 \in AicVals, a2 \in AicVals}
    \cup
    {<<[DefaultModel EXCEPT !.llf = l[1], !.df_model = d[1]],
       [DefaultModel EXCEPT !.llf = l[2], !.df_model = d[2]]>> :
        l \in LlfVals \X LlfVals, d \in DfModelVals \X DfModelVals}
    \cup
    {<<[DefaultModel EXCEPT !.null_deviance = nd, !.llf = l, !.nobs = n], DefaultModel>> :
        nd \in NullDevVals, l \in LlfVals, n \in NobsVals}

EmptyFrame == Table(<<>>, <<>>)

Quiet ==
    /\ call = NoCall
    /\ ret = None
    /\ stdout = <<>>
    /\ chart = NoChart
    /\ prevChart = NoChart
    /\ repeat = FALSE

Init ==
    /\ models \in ModelPairs
    /\ df = EmptyFrame
    /\ df_before = EmptyFrame
    /\ Quiet

Next ==
    \/ Call_compare_models_aic
    \/ Call_likelihood_ratio_test
    \/ Call_compute_pseudo_r2

Spec == Init /\ [][Next]_vars

(***************************************************************************)
(* The datasets a caller holds, and the calls it makes on them.            *)
(***************************************************************************)
CategoryColumns == {"TX_DAY", "TX_LIGHT"}

CountColumns == {"MS_ACCT", "MS_ACCT_WITH_DEAD", "MS_ACCT_WITH_SLY_INJ"}

CatColsOf(d) == Range(d.columns) \cap CategoryColumns

ValueColsOf(d) == Range(d.columns) \cap CountColumns

Days == {"Dimanche", "Lundi", "Monday"}

Lights == {"Jour", "Nuit"}

RowsUpTo(RowSet, n) == UNION {[1..k -> RowSet] : k \in 1..n}

\* The week of the worked example: per-day sums Sat 10, Sun 20, Mon..Fri 5.
SpecExampleWeek ==
    Table(<<"TX_DAY", "MS_ACCT">>,
          << [TX_DAY |-> "Samedi", MS_ACCT |-> 4], [TX_DAY |-> "Lundi", MS_ACCT |-> 5],
             [TX_DAY |-> "Dimanche", MS_ACCT |-> 20], [TX_DAY |-> "Mardi", MS_ACCT |-> 5],
             [TX_DAY |-> "Samedi", MS_ACCT |-> 6], [TX_DAY |-> "Mercredi", MS_ACCT |-> 5],
             [TX_DAY |-> "Vendredi", MS_ACCT |-> 2], [TX_DAY |-> "Jeudi", MS_ACCT |-> 5],
             [TX_DAY |-> "Vendredi", MS_ACCT |-> 3] >>)

DayDatasets ==
    {Table(<<"TX_DAY", "MS_ACCT">>, rows) :
        rows \in RowsUpTo([TX_DAY : Days, MS_ACCT : 0..MaxVal], MaxRows)}
    \cup {SpecExampleWeek}

SeverityDatasets ==
    {Table(<<"TX_LIGHT">> \o DefaultSeverityCols, rows) :
        rows \in RowsUpTo([TX_LIGHT : Lights,
                           MS_ACCT_WITH_DEAD : 0..MaxSev, MS_ACCT_WITH_MORY_INJ : {0},
                           MS_ACCT_WITH_SERLY_INJ : {0}, MS_ACCT_WITH_SLY_INJ : 0..MaxSev],
                          MaxSevRows)}

FeatureDatasets ==
    {Table(<<"MS_ACCT_WITH_DEAD", "MS_ACCT_WITH_SLY_INJ">>, rows) :
        rows \in RowsUpTo([MS_ACCT_WITH_DEAD : 0..MaxSev, MS_ACCT_WITH_SLY_INJ : 0..MaxSev],
                          MaxRows)}

DayOrderArgs == {NoArg, Given(<<"Dimanche", "Lundi", "Monday">>), Given(<<"Lundi">>)}

WeekendDaysArgs == {NoArg, Given(<<"Dimanche", "Lundi">>)}

\* A call names columns the frame has (a missing column raises KeyError).
SeverityColsArgs(d) ==
    {a \in {NoArg, Given(<<"MS_ACCT">>),
            Given(<<"MS_ACCT_WITH_DEAD", "MS_ACCT_WITH_SLY_INJ">>),
            Given(<<"MS_ACCT_WITH_SLY_INJ", "MS_ACCT_WITH_DEAD">>)} :
        Range(IF a.is_none THEN DefaultSeverityCols ELSE a.value) \subseteq Range(d.columns)}

MappingArgs == {NoArg, Given(<<>>)}

FeatureLists(d) ==
    {<<a>> : a \in ValueColsOf(d)}
    \cup {<<p[1], p[2]>> : p \in {q \in ValueColsOf(d) \X ValueColsOf(d) : q[1] # q[2]}}

Call_plot_accidents_by_day ==
    \E day_col \in CatColsOf(df), value_col \in ValueColsOf(df), day_order \in DayOrderArgs :
        LET r == plot_accidents_by_day(df, day_col, value_col, day_order)
        IN  Invoke([fn |-> "plot_accidents_by_day", args |-> <<day_col, value_col, day_order>>],
                   r.df, None, <<>>, r.data)

Call_plot_avg_accidents_weekday_vs_weekend ==
    \E day_col \in CatColsOf(df), value_col \in ValueColsOf(df),
       weekend_days \in WeekendDaysArgs :
        LET r == plot_avg_accidents_weekday_vs_weekend(df, day_col, value_col, "Weekend",
                                                       weekend_days)
        IN  Invoke([fn |-> "plot_avg_accidents_weekday_vs_weekend",
                    args |-> <<day_col, value_col, "Weekend", weekend_days>>],
                   r.df, None, <<>>, r.data)

Call_plot_accidents_by_road_type ==
    \E road_col \in CatColsOf(df), value_col \in ValueColsOf(df) :
        LET r == plot_accidents_by_road_type(df, road_col, value_col)
        IN  Invoke([fn |-> "plot_accidents_by_road_type", args |-> <<road_col, value_col>>],
                   r.df, None, <<>>, r.data)

Call_plot_accidents_by_hour ==
    \E hour_col \in CatColsOf(df), value_col \in ValueColsOf(df) :
        LET r == plot_accidents_by_hour(df, hour_col, value_col)
        IN  Invoke([fn |-> "plot_accidents_by_hour", args |-> <<hour_col, value_col>>],
                   r.df, None, <<>>, r.data)

Call_plot_accidents_by_light_condition ==
    \E light_col \in CatColsOf(df), value_col \in ValueColsOf(df) :
        LET r == plot_accidents_by_light_condition(df, light_col, value_col)
        IN  Invoke([fn |-> "plot_accidents_by_light_condition", args |-> <<light_col, value_col>>],
                   r.df, None, <<>>, r.data)

Call_plot_accident_severity_by_light_condition ==
    \E light_col \in CatColsOf(df), severity_cols \in SeverityColsArgs(df),
       accident_type_mapping \in MappingArgs :
        LET r == plot_accident_severity_by_light_condition(df, light_col, severity_cols,
                                                           accident_type_mapping)
        IN  Invoke([fn |-> "plot_accident_severity_by_light_condition",
                    args |-> <<light_col, severity_cols, accident_type_mapping>>],
                   r.df, None, <<>>, r.data)

Call_compute_vif ==
    \E features \in FeatureLists(df), add_const \in BOOLEAN :
        LET r == compute_vif(df, features, add_const)
        IN  Invoke([fn |-> "compute_vif", args |-> <<features, add_const>>],
                   r.df, r.ret, <<>>, NoChart)

InitDay ==
    /\ models = <<DefaultModel, DefaultModel>>
    /\ df \in DayDatasets
    /\ df_before = df
    /\ Quiet

NextDay ==
    \/ Call_plot_accidents_by_day
    \/ Call_plot_avg_accidents_weekday_vs_weekend
    \/ Call_plot_accidents_by_road_type
    \/ Call_plot_accidents_by_hour
    \/ Call_plot_accidents_by_light_condition
    \/ Call_plot_accident_severity_by_light_condition
    \/ Call_compute_vif

SpecDay == InitDay /\ [][NextDay]_vars

InitSeverity ==
    /\ models = <<DefaultModel, DefaultModel>>
    /\ df \in SeverityDatasets
    /\ df_before = df
    /\ Quiet

NextSeverity ==
    \/ Call_plot_accidents_by_road_type
    \/ Call_plot_accidents_by_light_condition
    \/ Call_plot_accident_severity_by_light_condition

SpecSeverity == InitSeverity /\ [][NextSeverity]_vars

InitVif ==
    /\ models = <<DefaultModel, DefaultModel>>
    /\ df \in FeatureDatasets
    /\ df_before = df
    /\ Quiet

NextVif == Call_compute_vif

SpecVif == InitVif /\ [][NextVif]_vars

(***************************************************************************)
(* Claims about the model helpers, checked under Spec.                     *)
(***************************************************************************)
\* The mapping {name1: aic1, name2: aic2} (a repeated key keeps the later value).
AicMapping(name1, aic1, name2, aic2) ==
    [k \in {name1, name2} |-> IF k = name2 THEN aic2 ELSE aic1]

\* C1: compare_models_aic(model1, model2, name1, name2) returns the mapping
\* {name1: model1.aic, name2: model2.aic}.
C1_ReturnsAicMapping ==
    call.fn = "compare_models_aic" =>
        /\ ret.type = "dict"
        /\ ret.value = AicMapping(call.args[1], models[1].aic, call.args[2], models[2].aic)

\* C2: likelihood_ratio_test returns a record with exactly the keys
\* LR_statistic, degrees_of_freedom and p_value, LR_statistic being
\* 2 * (model2.llf - model1.llf) and degrees_of_freedom being
\* (model2.df_model + 1) - model1.df_model, for every pair of models.
C2_ReturnsLrtRecord ==
    call.fn = "likelihood_ratio_test" =>
        /\ ret.type = "dict"
        /\ DOMAIN ret.value = {"LR_statistic", "degrees_of_freedom", "p_value"}
        /\ ret.value["LR_statistic"] = 2 * (models[2].llf - models[1].llf)
        /\ ret.value["degrees_of_freedom"] = (models[2].df_model + 1) - models[1].df_model

\* C3: compare_models_aic reports exactly one outcome: model1 preferred iff
\* model1.aic < model2.aic, model2 preferred iff model2.aic < model1.aic, a
\* tie iff the two values are equal; the preferred model is named in the line.
C3_VerdictMatchesOrder ==
    call.fn = "compare_models_aic" =>
        LET aic1 == models[1].aic
            aic2 == models[2].aic
            verdict == stdout[Len(stdout)]
        IN  /\ Len(stdout) = 3
            /\ Cardinality({i \in DOMAIN stdout : stdout[i].line \in {46, 48, 50}}) = 1
            /\ (verdict.line = 46) <=> (aic1 < aic2)
            /\ (verdict.line = 48) <=> (aic2 < aic1)
            /\ (verdict.line = 50) <=> (aic1 = aic2)
            /\ verdict.line = 46 => verdict.text[1] = call.args[1]
            /\ verdict.line = 48 => verdict.text[1] = call.args[2]

\* The worked example: AIC 100 against 95 reports the second model.
C3_Witness ==
    /\ call.fn = "compare_models_aic"
    /\ models[1].aic = 100 /\ models[2].aic = 95
    /\ call.args = <<"Model 1", "Model 2">>
    /\ stdout[3].line = 48 /\ stdout[3].text[1] = "Model 2"

\* C5: compute_pseudo_r2 returns two rows, r2ML then r2CU, both tagged with
\* model_name, where with llh_null = null_deviance / -2:
\*   r2ML = 1 - llh_null / llf          i.e.  r2ML * 2 * llf = 2 * llf + null_deviance
\*   r2CU = r2ML / (1 - llh_null/nobs)  i.e.  r2CU * (2 * nobs + null_deviance) = r2ML * 2 * nobs
\* (stated with the divisions multiplied out, over the rationals).
C5_PseudoR2Table ==
    call.fn = "compute_pseudo_r2" =>
        LET m == models[1]
            rows == ret.value.rows
            ml == rows[1].Value
            cu == rows[2].Value
        IN  /\ ret.type = "DataFrame"
            /\ Len(rows) = 2
            /\ rows[1].Metric = "r2ML" /\ rows[2].Metric = "r2CU"
            /\ rows[1].Model = call.args[1] /\ rows[2].Model = call.args[1]
            /\ IsFinite(ml) /\ IsFinite(cu)
            /\ ml.num * 2 * m.llf = (2 * m.llf + m.null_deviance) * ml.den
            /\ cu.num * (2 * m.nobs + m.null_deviance) * ml.den = ml.num * 2 * m.nobs * cu.den

\* The worked example: null_deviance 200, llf -80, nobs 50 gives r2ML = -0.25.
C5_Witness ==
    /\ call.fn = "compute_pseudo_r2"
    /\ models[1].null_deviance = 200 /\ models[1].llf = 0 - 80 /\ models[1].nobs = 50
    /\ ret.value.rows[1].Value = [num |-> 0 - 1, den |-> 4]

(***************************************************************************)
(* Claims about the chart builders and compute_vif.                        *)
(***************************************************************************)
ChartFunctions ==
    {"plot_accidents_by_day", "plot_avg_accidents_weekday_vs_weekend",
     "plot_accidents_by_road_type", "plot_accidents_by_hour",
     "plot_accidents_by_light_condition", "plot_accident_severity_by_light_condition"}

\* The sum of column col over the rows of the caller's frame that satisfy Sel.
TotalWhere(Sel(_), col) == ColSum(SelectSeq(df.rows, Sel), col)

\* C4: in plot_avg_accidents_weekday_vs_weekend the value plotted for a label
\* is the mean over its days of the per-day sums, that is (sum of all values
\* of the label) / (number of distinct days present with the label); a label
\* with no day in the data has no bar.  (SpecDay)
C4_TwoStageAverage ==
    call.fn = "plot_avg_accidents_weekday_vs_weekend" =>
        LET day_col == call.args[1]
            value_col == call.args[2]
            binary_col == call.args[3]
            weekend == IF call.args[4].is_none THEN {"Samedi", "Dimanche"}
                       ELSE Range(call.args[4].value)
            LabelOf(day) == IF day \in weekend THEN "Weekend" ELSE "Weekday"
            DaysOf(label) == {df.rows[i][day_col] :
                                i \in {j \in DOMAIN df.rows : LabelOf(df.rows[j][day_col]) = label}}
            Bars(label) == {i \in DOMAIN chart.rows : chart.rows[i][binary_col] = label}
        IN  \A label \in {"Weekend", "Weekday"} :
                IF DaysOf(label) = {} THEN Bars(label) = {}
                ELSE /\ Cardinality(Bars(label)) = 1
                     /\ \A i \in Bars(label) :
                            LET avg == chart.rows[i]["Average_Accidents"]
                                Sel(r) == LabelOf(r[day_col]) = label
                            IN  /\ avg.den > 0
                                /\ avg.num * Cardinality(DaysOf(label))
                                     = TotalWhere(Sel, value_col) * avg.den

\* The worked example (per-day sums Sat 10, Sun 20, Mon..Fri 5, two days split
\* over two rows): Weekday 5, Weekend 15, where the mean over rows is 25/6 and 10.
C4_Witness ==
    /\ call.fn = "plot_avg_accidents_weekday_vs_weekend"
    /\ df = SpecExampleWeek
    /\ call.args[4].is_none
    /\ Len(chart.rows) = 2
    /\ chart.rows[1]["Weekend"] = "Weekday" /\ chart.rows[1]["Average_Accidents"] = Float(5)
    /\ chart.rows[2]["Weekend"] = "Weekend" /\ chart.rows[2]["Average_Accidents"] = Float(15)

\* The order of day_order given to plot_accidents_by_day.
DayOrderOf(arg) == IF arg.is_none
                   THEN <<"Lundi", "Mardi", "Mercredi", "Jeudi", "Vendredi", "Samedi", "Dimanche">>
                   ELSE arg.value

\* C7 as stated: in plot_accidents_by_day, for any two days a and b present in
\* the data a is placed before b iff a precedes b in day_order, and every day
\* present in the data appears with its summed total.  (SpecDay)
C7_EveryDayInDayOrder ==
    call.fn = "plot_accidents_by_day" =>
        LET day_col == call.args[1]
            value_col == call.args[2]
            order == DayOrderOf(call.args[3])
            rows == chart.rows
            present == {df.rows[i][day_col] : i \in DOMAIN df.rows}
            Before(a, b) == \E i, j \in DOMAIN rows :
                                i < j /\ rows[i][day_col] = a /\ rows[j][day_col] = b
            Precedes(a, b) == /\ a \in Range(order) /\ b \in Range(order)
                              /\ Position(order, a) < Position(order, b)
        IN  /\ \A a \in present : \E i \in DOMAIN rows :
                    LET Sel(r) == r[day_col] = a
                    IN  rows[i][day_col] = a /\ rows[i][value_col] = TotalWhere(Sel, value_col)
            /\ \A a, b \in present : Before(a, b) <=> Precedes(a, b)

\* C7 amended: for any two days a and b present in the data and listed in
\* day_order, a is placed before b iff a precedes b in day_order, and each
\* such day appears once with its summed total; a day present in the data but
\* missing from day_order does not appear under its name: its total is kept in
\* a row whose day is missing (NaN), placed after all the listed days.
C7_ListedDaysInDayOrder ==
    call.fn = "plot_accidents_by_day" =>
        LET day_col == call.args[1]
            value_col == call.args[2]
            order == DayOrderOf(call.args[3])
            rows == chart.rows
            present == {df.rows[i][day_col] : i \in DOMAIN df.rows}
            listed == present \cap Range(order)
            RowsOf(a) == {i \in DOMAIN rows : rows[i][day_col] = a}
            Total(a) == LET Sel(r) == r[day_col] = a IN TotalWhere(Sel, value_col)
        IN  /\ Len(rows) = Cardinality(present)
            /\ \A a \in listed :
                    /\ Cardinality(RowsOf(a)) = 1
                    /\ \A i \in RowsOf(a) : rows[i][value_col] = Total(a)
            /\ \A a, b \in listed : \A i \in RowsOf(a), j \in RowsOf(b) :
                    (i < j) <=> (Position(order, a) < Position(order, b))
            /\ \A a \in present \ listed :
                    /\ RowsOf(a) = {}
                    /\ \E i \in RowsOf(NaN) : rows[i][value_col] = Total(a)
            /\ \A i \in RowsOf(NaN), j \in DOMAIN rows : j \notin RowsOf(NaN) => j < i

\* Rows given Sunday first are drawn Monday first, under the default day_order.
C7_Witness ==
    /\ call.fn = "plot_accidents_by_day"
    /\ call.args[3].is_none
    /\ Len(df.rows) = 2
    /\ df.rows[1]["TX_DAY"] = "Dimanche" /\ df.rows[2]["TX_DAY"] = "Lundi"
    /\ Len(chart.rows) = 2
    /\ chart.rows[1]["TX_DAY"] = "Lundi" /\ chart.rows[2]["TX_DAY"] = "Dimanche"

\* The severity columns and the display names of a severity chart call.
SeverityColsOf(arg) == IF arg.is_none
                       THEN << "MS_ACCT_WITH_DEAD", "MS_ACCT_WITH_MORY_INJ",
                               "MS_ACCT_WITH_SERLY_INJ", "MS_ACCT_WITH_SLY_INJ" >>
                       ELSE arg.value

DisplayName(col, arg) ==
    IF arg.is_none
    THEN CASE col = "MS_ACCT_WITH_DEAD" -> "Fatal accidents"
           [] col = "MS_ACCT_WITH_MORY_INJ" -> "Accidents with fatal injuries (30 days)"
           [] col = "MS_ACCT_WITH_SERLY_INJ" -> "Accidents with serious injuries"
           [] col = "MS_ACCT_WITH_SLY_INJ" -> "Accidents with minor injury"
           [] OTHER -> col
    ELSE IF col \in DOMAIN arg.value THEN arg.value[col] ELSE col

\* The proportions of a severity chart, row by row then column by column.
RECURSIVE SeverityCells(_, _, _)
SeverityCells(rows, cols, mapping) ==
    IF rows = <<>> THEN <<>>
    ELSE [k \in DOMAIN cols |-> rows[1][DisplayName(cols[k], mapping)]]
         \o SeverityCells(Tail(rows), cols, mapping)

\* C8 as stated: each of plot_accidents_by_road_type,
\* plot_accidents_by_light_condition and plot_accident_severity_by_light_condition
\* computes a proportion as the group's total divided by the grand total over
\* all groups, so the proportions of one chart sum to 1.  Read for the charts in
\* which no group of the grouping column has a zero total, so that every
\* division is defined.  (SpecSeverity)
C8_ProportionsOfGrandTotal ==
    /\ call.fn \in {"plot_accidents_by_road_type", "plot_accidents_by_light_condition"} =>
          LET by == call.args[1]
              value_col == call.args[2]
              grand == ColSum(df.rows, value_col)
          IN  grand # 0 =>
              /\ \A i \in DOMAIN chart.rows :
                    LET Sel(r) == r[by] = chart.rows[i][by]
                    IN  chart.rows[i]["Proportion"] = Frac(TotalWhere(Sel, value_col), grand)
              /\ FSum([i \in DOMAIN chart.rows |-> chart.rows[i]["Proportion"]]) = Float(1)
    /\ call.fn = "plot_accident_severity_by_light_condition" =>
          LET light_col == call.args[1]
              cols == SeverityColsOf(call.args[2])
              grand == SumSeq([k \in DOMAIN cols |-> ColSum(df.rows, cols[k])])
              LightTotal(l) == LET Sel(r) == r[light_col] = l
                               IN  SumSeq([k \in DOMAIN cols |-> TotalWhere(Sel, cols[k])])
          IN  (\A i \in DOMAIN df.rows : LightTotal(df.rows[i][light_col]) # 0) =>
              /\ \A i \in DOMAIN chart.rows : \A c \in Range(cols) :
                    LET Sel(r) == r[light_col] = chart.rows[i][light_col]
                    IN  chart.rows[i][DisplayName(c, call.args[3])]
                            = Frac(TotalWhere(Sel, c), grand)
              /\ FSum(SeverityCells(chart.rows, cols, call.args[3])) = Float(1)

\* C8 amended: plot_accidents_by_road_type and plot_accidents_by_light_condition
\* compute each proportion as the group's total divided by the grand total, so
\* the proportions of the chart sum to 1; plot_accident_severity_by_light_condition
\* divides each severity count by the total of its own lighting condition, so
\* the proportions sum to 1 within each lighting condition, not over the chart.
\* (Where the dividing total is 0 the proportions are NaN and sum to nothing.)
C8_ProportionsOfOwnTotal ==
    /\ call.fn \in {"plot_accidents_by_road_type", "plot_accidents_by_light_condition"} =>
          LET by == call.args[1]
              value_col == call.args[2]
              grand == ColSum(df.rows, value_col)
          IN  /\ \A i \in DOMAIN chart.rows :
                    LET Sel(r) == r[by] = chart.rows[i][by]
                        p == chart.rows[i]["Proportion"]
                    IN  IF grand = 0 THEN ~IsFinite(p)
                        ELSE IsFinite(p) /\ p.num * grand = TotalWhere(Sel, value_col) * p.den
              /\ grand # 0 =>
                    FSum([i \in DOMAIN chart.rows |-> chart.rows[i]["Proportion"]]) = Float(1)
    /\ call.fn = "plot_accident_severity_by_light_condition" =>
          LET light_col == call.args[1]
              cols == SeverityColsOf(call.args[2])
          IN  \A i \in DOMAIN chart.rows :
                LET Sel(r) == r[light_col] = chart.rows[i][light_col]
                    total == SumSeq([k \in DOMAIN cols |-> TotalWhere(Sel, cols[k])])
                    P(c) == chart.rows[i][DisplayName(c, call.args[3])]
                IN  /\ \A c \in Range(cols) :
                          IF total = 0 THEN ~IsFinite(P(c))
                          ELSE IsFinite(P(c)) /\ P(c).num * total = TotalWhere(Sel, c) * P(c).den
                    /\ total # 0 => FSum([k \in DOMAIN cols |-> P(cols[k])]) = Float(1)

\* Two lighting conditions, each with accidents: one row's proportions are 1/2
\* and 1/2, and the chart's proportions sum to 2.
C8_Witness ==
    /\ call.fn = "plot_accident_severity_by_light_condition"
    /\ call.args[2].is_none /\ call.args[3].is_none
    /\ Len(chart.rows) = 2
    /\ chart.rows[1]["Fatal accidents"] = Frac(1, 2)
    /\ chart.rows[1]["Accidents with minor injury"] = Frac(1, 2)
    /\ FSum(SeverityCells(chart.rows, SeverityColsOf(call.args[2]), call.args[3])) = Float(2)

\* The Variable column of the table compute_vif returned.
VifVariables == [i \in DOMAIN ret.value.rows |-> ret.value.rows[i].Variable]

\* C6 as stated: compute_vif returns one row per column of the design matrix:
\* with add_constant=True len(features) + 1 rows, the constant first and then
\* the features in the given order, for every dataset; with add_constant=False
\* exactly the features.  (SpecVif)
C6_ConstantAlwaysPrepended ==
    call.fn = "compute_vif" =>
        /\ ret.type = "DataFrame"
        /\ VifVariables = (IF call.args[2] THEN <<"const">> ELSE <<>>) \o call.args[1]

\* C6 amended: with add_constant=True the result has len(features) + 1 rows,
\* the constant first and then the features in the given order, unless one of
\* the selected feature columns is itself constant and non-zero over the
\* dataset, in which case no constant is added and the result has exactly
\* len(features) rows; with add_constant=False it has exactly the features.
C6_ConstantPrependedUnlessPresent ==
    call.fn = "compute_vif" =>
        LET features == call.args[1]
            already == \E k \in DOMAIN features :
                          /\ df.rows[1][features[k]] # 0
                          /\ \A i \in DOMAIN df.rows :
                                df.rows[i][features[k]] = df.rows[1][features[k]]
        IN  /\ ret.type = "DataFrame"
            /\ VifVariables = (IF call.args[2] /\ ~already THEN <<"const">> ELSE <<>>) \o features

\* Two varying features with add_constant=True: three rows, the constant first.
C6_Witness ==
    /\ call.fn = "compute_vif"
    /\ call.args[2]
    /\ call.args[1] = <<"MS_ACCT_WITH_SLY_INJ", "MS_ACCT_WITH_DEAD">>
    /\ VifVariables = <<"const", "MS_ACCT_WITH_SLY_INJ", "MS_ACCT_WITH_DEAD">>

\* C9: a chart function called twice in succession with identical inputs
\* hands the same aggregated table (groups, order, values) to the plotting
\* library both times.  (SpecDay)
C9_RepeatedCallSameChart ==
    (repeat /\ call.fn \in ChartFunctions) => chart = prevChart

C9_Witness ==
    /\ repeat
    /\ call.fn = "plot_accidents_by_day"
    /\ Len(chart.rows) = 2
    /\ \E i \in DOMAIN df.rows : df.rows[i]["MS_ACCT"] > 0

\* C10: after any sequence of calls to the chart functions and compute_vif the
\* caller's dataset has the columns, rows and values it had before; the
\* Weekend/Weekday column and the constant column exist only in private
\* copies.  (SpecDay)
C10_CallerFrameUnchanged ==
    /\ df.columns = df_before.columns
    /\ Len(df.rows) = Len(df_before.rows)
    /\ \A i \in DOMAIN df.rows :
          /\ DOMAIN df.rows[i] = DOMAIN df_before.rows[i]
          /\ \A c \in DOMAIN df.rows[i] : df.rows[i][c] = df_before.rows[i][c]

C10_Witness ==
    /\ call.fn = "plot_avg_accidents_weekday_vs_weekend"
    /\ repeat
    /\ Len(chart.rows) = 2
    /\ "Weekend" \in Range(chart.columns)
    /\ "Weekend" \notin Range(df.columns)

====
